---------------------------- MODULE Spec2Model ----------------------------
(***************************************************************************)
(* A model of src/utils/utils.py: the dimension slicer (get_slices), the   *)
(* batched cartesian product (cartesian_product), the two exact k-nearest  *)
(* neighbour searches (get_knn_pytorch, get_knn_faiss) and the module-level *)
(* FAISS probe that binds get_knn.                                         *)
(*                                                                         *)
(* Tensors are modelled as torch stores them: a shape and one flat,        *)
(* row-major (contiguous) data buffer.  Python indices are 0-based and the  *)
(* model keeps them 0-based in every value it returns; only positions in   *)
(* TLA+ sequences are 1-based.                                             *)
(***************************************************************************)
EXTENDS Integers, Sequences, FiniteSets, TLC

VARIABLES
    \* ---- get_slices -----------------------------------------------------
    dim,            \* argument dim
    head_id,        \* argument head_id
    slices,         \* outcome of get_slices(dim, head_id)
    \* ---- cartesian_product ----------------------------------------------
    cp_a,           \* argument a: Tensor(n, d1)
    cp_b,           \* argument b: Tensor(n, d2)
    cp_out,         \* outcome of cartesian_product(a, b)
    \* ---- the process that imports the module ----------------------------
    faiss_env,      \* what `import faiss` finds: "gpu", "cpu_only" or "missing"
    pc,             \* "start", "probed" (lines 9-15 ran), "ready" (lines 178-187 ran)
    FAISS_AVAILABLE,
    FAISS_RES,      \* "undefined" or "StandardGpuResources"
    res_built,      \* how many times faiss.StandardGpuResources() was constructed
    stderr,         \* the lines written to sys.stderr
    get_knn,        \* the function the module-level name get_knn is bound to
    native_called,  \* whether get_knn_faiss has been called in this process
    \* ---- a search call ---------------------------------------------------
    keys,           \* matrix of size (m, d)
    queries,        \* matrix of size (n, d)
    k,              \* number of nearest neighbours
    distance,       \* distance metric
    called,         \* the search function called last
    res             \* its outcome

slice_vars == <<dim, head_id, slices>>
cart_vars  == <<cp_a, cp_b, cp_out>>
proc_vars  == <<faiss_env, pc, FAISS_AVAILABLE, FAISS_RES, res_built, stderr, get_knn>>
arg_vars   == <<keys, queries, k, distance>>
call_vars  == <<native_called, called, res>>
knn_vars   == <<proc_vars, arg_vars, call_vars>>
vars       == <<slice_vars, cart_vars, knn_vars>>

(***************************************************************************)
(* Bounds of the model.                                                    *)
(***************************************************************************)
MaxDim       == 16  \* get_slices: dim ranges over 1..MaxDim
MaxHead      == 3   \* get_slices: head_id ranges over 0..MaxHead
MaxCartCells == 3   \* cartesian_product: each argument has at most this many cells
MaxIdx       == 1   \* cartesian_product: the entries are indices in 0..MaxIdx
MaxCells     == 4   \* search: the keys matrix has at most this many cells (m * d)
MaxQCells    == 2   \* search: the queries matrix has at most this many cells (n * d)
MaxK         == 3   \* search: k ranges over -1..MaxK
MaxProcCells == 1   \* process runs: keys and queries have at most this many cells

(***************************************************************************)
(* Outcomes of a call: a returned value, or the exception that left it.    *)
(***************************************************************************)
NotCalled    == [raised |-> "not called", value |-> <<>>]
Return(v)    == [raised |-> "", value |-> v]
Raise(e)     == [raised |-> e, value |-> <<>>]
Returned(o)  == o.raised = ""
Failed(o)    == o.raised \notin {"", "not called"}
Called(o)    == o.raised # "not called"

(***************************************************************************)
(* get_slices                                                              *)
(***************************************************************************)
CeilDiv(x, y) == (x + y - 1) \div y

\* np.arange(start, stop, step) for a positive step
arange(start, stop, step) ==
    [i \in 1..(IF stop > start THEN CeilDiv(stop - start, step) ELSE 0)
        |-> start + (i - 1) * step]

\* [(x, x + offset) for i, x in enumerate(starts) if i % 2 == parity]
RECURSIVE comprehension(_, _, _, _)
comprehension(starts, offset, parity, pos) ==
    IF pos > Len(starts) THEN <<>>
    ELSE (IF (pos - 1) % 2 = parity
             THEN << <<starts[pos], starts[pos] + offset>> >>
             ELSE <<>>)
         \o comprehension(starts, offset, parity, pos + 1)

\* a plausible slip: the odd-position blocks come first
get_slices_odd_first(d, h) ==
    IF h = 0 THEN Return(<< <<0, d>> >>)
    ELSE LET offset == d \div (2 ^ (h + 1))
         IN  IF offset = 0 THEN Raise("ZeroDivisionError")
             ELSE LET starts == arange(0, d, offset)
                  IN  Return(comprehension(starts, offset, 1, 1)
                             \o comprehension(starts, offset, 0, 1))

get_slices(d, h) ==
    IF h = 0 THEN Return(<< <<0, d>> >>)
    ELSE LET offset == d \div (2 ^ (h + 1))
         IN  \* np.arange with a step of 0 raises
             IF offset = 0 THEN Raise("ZeroDivisionError")
             ELSE LET starts  == arange(0, d, offset)
                      slices1 == comprehension(starts, offset, 0, 1)
                      slices2 == comprehension(starts, offset, 1, 1)
                  IN  Return(slices1 \o slices2)

(***************************************************************************)
(* cartesian_product, through the torch operations it is written with      *)
(***************************************************************************)
RECURSIVE Numel(_)
Numel(shape) == IF shape = <<>> THEN 1 ELSE Head(shape) * Numel(Tail(shape))

\* the 0-based multi-index of the 0-based flat offset lin in a row-major tensor
RECURSIVE Unravel(_, _)
Unravel(lin, shape) ==
    IF shape = <<>> THEN <<>>
    ELSE LET inner == Numel(Tail(shape))
         IN  <<lin \div inner>> \o Unravel(lin % inner, Tail(shape))

\* the 0-based flat offset of the 0-based multi-index idx
RECURSIVE Ravel(_, _)
Ravel(idx, shape) ==
    IF shape = <<>> THEN 0
    ELSE Head(idx) * Numel(Tail(shape)) + Ravel(Tail(idx), Tail(shape))

Tensor(shape, data) == [shape |-> shape, data |-> data]
Item(t, idx)        == t.data[Ravel(idx, t.shape) + 1]

\* t.unsqueeze(-1)
unsqueeze_last(t) == Tensor(Append(t.shape, 1), t.data)

\* t.repeat(*reps), reps as long as t's shape: the tensor tiled reps[i] times along i
repeat(t, reps) ==
    LET shape == [i \in 1..Len(t.shape) |-> t.shape[i] * reps[i]]
    IN  Tensor(shape,
               [p \in 1..Numel(shape) |->
                   LET idx == Unravel(p - 1, shape)
                   IN  Item(t, [i \in 1..Len(idx) |-> idx[i] % t.shape[i]])])

\* t.view(*shape): the same buffer read under another shape
view(t, shape) == Tensor(shape, t.data)

\* torch.cat([x, y], d), d a 0-based dimension
cat(x, y, d) ==
    LET shape == [i \in 1..Len(x.shape) |->
                     IF i = d + 1 THEN x.shape[i] + y.shape[i] ELSE x.shape[i]]
    IN  Tensor(shape,
               [p \in 1..Numel(shape) |->
                   LET idx == Unravel(p - 1, shape)
                   IN  IF idx[d + 1] < x.shape[d + 1]
                          THEN Item(x, idx)
                          ELSE Item(y, [idx EXCEPT ![d + 1] = @ - x.shape[d + 1]])])

\* a plausible slip: every entry of b repeated d1 times in place (repeat_interleave)
repeat_b_interleaved(b, d1) ==
    view(repeat(unsqueeze_last(b), <<1, 1, d1>>), <<b.shape[1], b.shape[2] * d1>>)

\* b.repeat(1, d1)
repeat_b(b, d1) == repeat(b, <<1, d1>>)

cartesian_product(a, b) ==
    LET n1 == a.shape[1]
        d1 == a.shape[2]
        n2 == b.shape[1]
        d2 == b.shape[2]
    IN  IF n1 # n2 THEN Raise("AssertionError")
        ELSE Return(view(cat(unsqueeze_last(repeat(unsqueeze_last(a), <<1, 1, d2>>)),
                             unsqueeze_last(view(repeat_b(b, d1), <<n2, d1, d2>>)),
                             3),
                         <<n1, d1 * d2, 2>>))

(***************************************************************************)
(* Matrix operations of torch used by the searches.  Matrices hold integer *)
(* entries; dot_product and l2 scores are then exact integers.  cosine     *)
(* scores are kept in thousandths, each of its two divisions rounded down  *)
(* (the model's stand-in for float32 rounding).                            *)
(***************************************************************************)
Rows(x)     == x.shape[1]
Cols(x)     == x.shape[2]
At(x, i, j) == x.data[i * x.shape[2] + j + 1]   \* x[i][j] of a contiguous matrix

RECURSIVE SeqSum(_)
SeqSum(s) == IF s = <<>> THEN 0 ELSE Head(s) + SeqSum(Tail(s))

\* x.t()
t(x) ==
    Tensor(<<Cols(x), Rows(x)>>,
           [p \in 1..(Rows(x) * Cols(x)) |->
               At(x, (p - 1) % Rows(x), (p - 1) \div Rows(x))])

\* x.mm(y)
mm(x, y) ==
    Tensor(<<Rows(x), Cols(y)>>,
           [p \in 1..(Rows(x) * Cols(y)) |->
               SeqSum([c \in 1..Cols(x) |->
                   At(x, (p - 1) \div Cols(y), c - 1) * At(y, c - 1, (p - 1) % Cols(y))])])

\* (x ** 2).sum(1), as a sequence over the rows of x
sum_sq(x) ==
    [i \in 1..Rows(x) |-> SeqSum([c \in 1..Cols(x) |-> At(x, i - 1, c - 1) * At(x, i - 1, c - 1)])]

\* the largest r in lo..hi with r * r <= x
RECURSIVE isqrt_in(_, _, _)
isqrt_in(x, lo, hi) ==
    IF lo >= hi THEN lo
    ELSE LET mid == (lo + hi + 1) \div 2
         IN  IF mid * mid <= x THEN isqrt_in(x, mid, hi) ELSE isqrt_in(x, lo, mid - 1)

\* x.norm(2, 1), in thousandths
norm(x) == [i \in 1..Rows(x) |-> isqrt_in(sum_sq(x)[i] * 1000000, 0, 40000)]

\* s / (nrm + 1e-9) for a score s and a norm nrm, both in thousandths.  A zero norm
\* leaves the division by 1e-9 alone; any other norm is at least 1 and hides 1e-9.
div_norm(s, nrm) == IF nrm = 0 THEN s * 1000000000 ELSE (s * 1000) \div nrm

\* scores -= v[:, None] (by_row) and scores -= v[None, :] (not by_row)
sub_broadcast(scores, v, by_row) ==
    Tensor(scores.shape,
           [p \in 1..Len(scores.data) |->
               scores.data[p] - (IF by_row THEN v[((p - 1) \div Cols(scores)) + 1]
                                           ELSE v[((p - 1) % Cols(scores)) + 1])])

\* lines 113-114
dot_product_scores(a, b) == mm(a, t(b))

\* lines 116-119
cosine_scores(a, b) ==
    LET dots == mm(a, t(b))
        na   == norm(a)
        nb   == norm(b)
    IN  Tensor(dots.shape,
               [p \in 1..Len(dots.data) |->
                   div_norm(div_norm(dots.data[p] * 1000, na[((p - 1) \div Cols(dots)) + 1]),
                            nb[((p - 1) % Cols(dots)) + 1])])

\* a plausible slip: the line `scores *= 2` left out
l2_scores_not_doubled(a, b) ==
    sub_broadcast(sub_broadcast(mm(a, t(b)), sum_sq(a), TRUE), sum_sq(b), FALSE)

\* lines 121-125
l2_scores(a, b) ==
    LET dots    == mm(a, t(b))
        doubled == Tensor(dots.shape, [p \in 1..Len(dots.data) |-> dots.data[p] * 2])
    IN  sub_broadcast(sub_broadcast(doubled, sum_sq(a), TRUE), sum_sq(b), FALSE)

(***************************************************************************)
(* Exact top-k selection.  Which of several equal scores comes first is    *)
(* left to the backend; the model lets a call break every tie towards the  *)
(* lower index or every tie towards the higher index.                      *)
(***************************************************************************)
TiePolicies == {"lower index first", "higher index first"}

\* whether position i of line comes before position j in the sorted order
Before(line, i, j, largest, tie) ==
    \/ IF largest THEN line[i] > line[j] ELSE line[i] < line[j]
    \/ /\ line[i] = line[j]
       /\ IF tie = "lower index first" THEN i < j ELSE i > j

\* the positions of the kk best entries of line, best first
Selection(line, kk, largest, tie) ==
    [p \in 1..kk |->
        CHOOSE i \in 1..Len(line) :
            Cardinality({j \in 1..Len(line) : Before(line, j, i, largest, tie)}) = p - 1]

\* the line of x along dimension d that the other index l (0-based) fixes
LineOf(x, d, l) ==
    [i \in 1..x.shape[d + 1] |-> IF d = 0 THEN At(x, i - 1, l) ELSE At(x, l, i - 1)]

\* x.topk(k=kk, dim=d, largest=largest) of a matrix x: the outcomes
topk(x, kk, d, largest) ==
    IF kk > x.shape[d + 1]
    THEN {[raised |-> "RuntimeError", values |-> Tensor(<<>>, <<>>), indices |-> Tensor(<<>>, <<>>)]}
    ELSE LET nlines == x.shape[2 - d]
             shape  == IF d = 0 THEN <<kk, nlines>> ELSE <<nlines, kk>>
             \* the line and the rank of the 1-based flat position p of the result
             line(p) == IF d = 0 THEN (p - 1) % nlines ELSE (p - 1) \div kk
             rank(p) == IF d = 0 THEN (p - 1) \div nlines ELSE (p - 1) % kk
         IN  {LET sel == [l \in 1..nlines |-> Selection(LineOf(x, d, l - 1), kk, largest, tie)]
              IN  [raised  |-> "",
                   values  |-> Tensor(shape, [p \in 1..(kk * nlines) |->
                                  IF d = 0 THEN At(x, sel[line(p) + 1][rank(p) + 1] - 1, line(p))
                                           ELSE At(x, line(p), sel[line(p) + 1][rank(p) + 1] - 1)]),
                   indices |-> Tensor(shape, [p \in 1..(kk * nlines) |->
                                  sel[line(p) + 1][rank(p) + 1] - 1])]
              : tie \in TiePolicies}

(***************************************************************************)
(* Outcomes of a search call.                                              *)
(***************************************************************************)
NoTensor == Tensor(<<>>, <<>>)
NoSearch == [raised |-> "not called", scores |-> NoTensor, indices |-> NoTensor,
             native |-> FALSE]
\* native: whether the native library's search routine (faiss.bfKnn) was entered
SearchRaise(e, native)     == [raised |-> e, scores |-> NoTensor, indices |-> NoTensor,
                               native |-> native]
SearchReturn(sc, ix, native) == [raised |-> "", scores |-> sc, indices |-> ix,
                               native |-> native]

(***************************************************************************)
(* get_knn_pytorch                                                         *)
(***************************************************************************)
\* a plausible slip: largest=False
pytorch_topk_smallest(scores, kk) == topk(scores, kk, 0, FALSE)

\* line 127
pytorch_topk(scores, kk) == topk(scores, kk, 0, TRUE)

get_knn_pytorch(a, b, kk, dist) ==
    IF Cols(b) # Cols(a) THEN {SearchRaise("AssertionError", FALSE)}
    ELSE IF ~(kk > 0) THEN {SearchRaise("AssertionError", FALSE)}
    ELSE IF dist \notin {"dot_product", "cosine", "l2"}
         THEN {SearchRaise("AssertionError", FALSE)}
    ELSE LET scores == CASE dist = "dot_product" -> dot_product_scores(a, b)
                         [] dist = "cosine"      -> cosine_scores(a, b)
                         [] dist = "l2"          -> l2_scores(a, b)
         IN  {IF o.raised # "" THEN SearchRaise(o.raised, FALSE)
                               ELSE SearchReturn(t(o.values), t(o.indices), FALSE)
              : o \in pytorch_topk(scores, kk)}

(***************************************************************************)
(* get_knn_faiss.  The tensors of the model are contiguous float32 (int64  *)
(* for the indices) tensors on one device, so the assertions of lines 78,  *)
(* 79, 87, 88 and 139 pass.                                                *)
(***************************************************************************)
\* faiss.bfKnn(res, args), by the library's contract for GpuDistanceParams: a buffer
\* flagged row-major holds vector j's coordinate c at j * dims + c, one flagged
\* column-major holds it at c * numVectors + j; METRIC_INNER_PRODUCT returns the k
\* largest inner products, METRIC_L2 the k smallest squared distances; results
\* beyond the number of vectors are filled with index -1.  The wrapper passes k = 0
\* on unchecked: the library may reject it or return the empty output buffers.
bfKnn(args) ==
    LET Vec(j, c) == IF args.vectorsRowMajor THEN args.vectors[j * args.dims + c + 1]
                                             ELSE args.vectors[c * args.numVectors + j + 1]
        Qry(q, c) == IF args.queriesRowMajor THEN args.queries[q * args.dims + c + 1]
                                             ELSE args.queries[c * args.numQueries + q + 1]
        largest   == args.metric = "METRIC_INNER_PRODUCT"
        Score(q, j) ==
            IF largest
            THEN SeqSum([c \in 1..args.dims |-> Qry(q, c - 1) * Vec(j, c - 1)])
            ELSE SeqSum([c \in 1..args.dims |->
                     (Qry(q, c - 1) - Vec(j, c - 1)) * (Qry(q, c - 1) - Vec(j, c - 1))])
        dists == Tensor(<<args.numVectors, args.numQueries>>,
                        [p \in 1..(args.numVectors * args.numQueries) |->
                            Score((p - 1) % args.numQueries, (p - 1) \div args.numQueries)])
        found == IF args.k <= args.numVectors THEN args.k ELSE args.numVectors
        shape == <<args.numQueries, args.k>>
        padD  == IF largest THEN -2147483647 ELSE 2147483647
    IN  IF args.k = 0
        THEN {SearchRaise("RuntimeError", TRUE), SearchReturn(Tensor(shape, <<>>), Tensor(shape, <<>>), TRUE)}
        ELSE {SearchReturn(
                 Tensor(shape, [p \in 1..(args.numQueries * args.k) |->
                     IF (p - 1) % args.k < found
                     THEN At(o.values, (p - 1) % args.k, (p - 1) \div args.k) ELSE padD]),
                 Tensor(shape, [p \in 1..(args.numQueries * args.k) |->
                     IF (p - 1) % args.k < found
                     THEN At(o.indices, (p - 1) % args.k, (p - 1) \div args.k) ELSE -1]),
                 TRUE)
              : o \in topk(dists, found, 0, largest)}

\* a plausible slip: cosine let through to the native library
faiss_distances_with_cosine == {"dot_product", "cosine", "l2"}

\* line 140
faiss_distances == {"dot_product", "l2"}

\* lines 163 and 167
vectorsRowMajor == FALSE
queriesRowMajor == FALSE

get_knn_faiss(xb, xq, kk, dist) ==
    IF dist \notin faiss_distances THEN {SearchRaise("AssertionError", FALSE)}
    \* line 142: the name faiss is not defined when the import failed
    ELSE IF faiss_env = "missing" THEN {SearchRaise("NameError", FALSE)}
    ELSE IF Cols(xq) # Cols(xb) THEN {SearchRaise("AssertionError", FALSE)}
    \* lines 152-153: torch.empty(nq, k) with a negative k
    ELSE IF kk < 0 THEN {SearchRaise("RuntimeError", FALSE)}
    \* line 158: a build without GPU support has no GpuDistanceParams
    ELSE IF faiss_env = "cpu_only" THEN {SearchRaise("AttributeError", FALSE)}
    \* line 174: the name FAISS_RES
    ELSE IF FAISS_RES = "undefined" THEN {SearchRaise("NameError", FALSE)}
    ELSE bfKnn([metric          |-> IF dist = "dot_product" THEN "METRIC_INNER_PRODUCT"
                                                            ELSE "METRIC_L2",
                k               |-> kk,
                dims            |-> Cols(xq),
                vectors         |-> xb.data,
                vectorsRowMajor |-> vectorsRowMajor,
                numVectors      |-> Rows(xb),
                queries         |-> xq.data,
                queriesRowMajor |-> queriesRowMajor,
                numQueries      |-> Rows(xq)])

(***************************************************************************)
(* The module-level statements                                             *)
(***************************************************************************)
\* a plausible slip: the ImportError handler writes nothing
import_faiss_silent(env, err) ==
    IF env = "missing" THEN [available |-> FALSE, stderr |-> err]
    ELSE [available |-> env = "gpu", stderr |-> err]

\* lines 9-15
import_faiss(env, err) ==
    IF env = "missing"
    THEN [available |-> FALSE, stderr |-> Append(err, "FAISS library was not found.\n")]
    ELSE [available |-> env = "gpu", stderr |-> err]

\* a plausible slip: the resource built on both branches
bind_backend_always_builds(available, err, built) ==
    IF available
    THEN [FAISS_RES |-> "StandardGpuResources", res_built |-> built + 1,
          stderr |-> err, get_knn |-> "get_knn_faiss"]
    ELSE [FAISS_RES |-> "StandardGpuResources", res_built |-> built + 1,
          stderr |-> Append(err, "FAISS not available. Switching to standard nearest neighbors search implementation.\n"),
          get_knn |-> "get_knn_pytorch"]

\* lines 178-187
bind_backend(available, err, built) ==
    IF available
    THEN [FAISS_RES |-> "StandardGpuResources", res_built |-> built + 1,
          stderr |-> err, get_knn |-> "get_knn_faiss"]
    ELSE [FAISS_RES |-> "undefined", res_built |-> built,
          stderr |-> Append(err, "FAISS not available. Switching to standard nearest neighbors search implementation.\n"),
          get_knn |-> "get_knn_pytorch"]

(***************************************************************************)
(* Inputs                                                                  *)
(***************************************************************************)
Shapes(cells) == {s \in (1..cells) \X (1..cells) : s[1] * s[2] <= cells}

TensorsOver(cells, values) ==
    UNION {{Tensor(s, d) : d \in [1..(s[1] * s[2]) -> values]} : s \in Shapes(cells)}

IndexMatrices == TensorsOver(MaxCartCells, 0..MaxIdx)

\* the entries of keys and queries: 0 or 1
Bits == {0, 1}

Distances == {"dot_product", "cosine", "l2", "manhattan"}
Ks        == (-1)..MaxK

Envs == {"gpu", "cpu_only", "missing"}

(***************************************************************************)
(* Specification of get_slices: the arguments are drawn, the call is made. *)
(***************************************************************************)
CartIdle == cp_a = NoTensor /\ cp_b = NoTensor /\ cp_out = NotCalled
KnnIdle ==
    /\ faiss_env = "gpu" /\ pc = "start" /\ FAISS_AVAILABLE = FALSE
    /\ FAISS_RES = "undefined" /\ res_built = 0 /\ stderr = <<>> /\ get_knn = "undefined"
    /\ native_called = FALSE
    /\ keys = NoTensor /\ queries = NoTensor /\ k = 0 /\ distance = ""
    /\ called = "" /\ res = NoSearch
SliceIdle == dim = 0 /\ head_id = 0 /\ slices = NotCalled

InitSlices ==
    /\ dim \in 1..MaxDim
    /\ head_id \in 0..MaxHead
    /\ slices = NotCalled
    /\ CartIdle
    /\ KnnIdle

CallGetSlices ==
    /\ slices' = get_slices(dim, head_id)
    /\ UNCHANGED <<dim, head_id, cart_vars, knn_vars>>

NextSlices == CallGetSlices

SpecSlices == InitSlices /\ [][NextSlices]_vars

(***************************************************************************)
(* Specification of cartesian_product.                                     *)
(***************************************************************************)
InitCart ==
    /\ cp_a \in IndexMatrices
    /\ cp_b \in IndexMatrices
    /\ cp_out = NotCalled
    /\ SliceIdle
    /\ KnnIdle

CallCartesianProduct ==
    /\ cp_out' = cartesian_product(cp_a, cp_b)
    /\ UNCHANGED <<cp_a, cp_b, slice_vars, knn_vars>>

NextCart == CallCartesianProduct

SpecCart == InitCart /\ [][NextCart]_vars

(***************************************************************************)
(* The process: the import of the module (lines 9-15, then 178-187), then  *)
(* search calls through get_knn or to either function by name.             *)
(***************************************************************************)
ImportFaiss ==
    /\ pc = "start"
    /\ LET r == import_faiss(faiss_env, stderr)
       IN  /\ FAISS_AVAILABLE' = r.available
           /\ stderr' = r.stderr
    /\ pc' = "probed"
    /\ UNCHANGED <<faiss_env, FAISS_RES, res_built, get_knn, arg_vars, call_vars,
                   slice_vars, cart_vars>>

BindBackend ==
    /\ pc = "probed"
    /\ LET r == bind_backend(FAISS_AVAILABLE, stderr, res_built)
       IN  /\ FAISS_RES' = r.FAISS_RES
           /\ res_built' = r.res_built
           /\ stderr' = r.stderr
           /\ get_knn' = r.get_knn
    /\ pc' = "ready"
    /\ UNCHANGED <<faiss_env, FAISS_AVAILABLE, arg_vars, call_vars, slice_vars, cart_vars>>

CallGetKnnPytorch ==
    /\ pc = "ready"
    /\ \E o \in get_knn_pytorch(keys, queries, k, distance) :
          /\ called' = "get_knn_pytorch"
          /\ res' = o
    /\ UNCHANGED <<native_called, proc_vars, arg_vars, slice_vars, cart_vars>>

CallGetKnnFaiss ==
    /\ pc = "ready"
    /\ \E o \in get_knn_faiss(keys, queries, k, distance) :
          /\ called' = "get_knn_faiss"
          /\ res' = o
    /\ native_called' = TRUE
    /\ UNCHANGED <<proc_vars, arg_vars, slice_vars, cart_vars>>

\* a call through the module-level name get_knn
CallGetKnn ==
    /\ pc = "ready"
    /\ \E o \in (IF get_knn = "get_knn_faiss"
                    THEN get_knn_faiss(keys, queries, k, distance)
                    ELSE get_knn_pytorch(keys, queries, k, distance)) :
          /\ called' = get_knn
          /\ res' = o
    /\ native_called' = (native_called \/ get_knn = "get_knn_faiss")
    /\ UNCHANGED <<proc_vars, arg_vars, slice_vars, cart_vars>>

\* SpecProc: a process from its start, in each environment
InitProc ==
    /\ faiss_env \in Envs
    /\ pc = "start"
    /\ FAISS_AVAILABLE = FALSE
    /\ FAISS_RES = "undefined"
    /\ res_built = 0
    /\ stderr = <<>>
    /\ get_knn = "undefined"
    /\ native_called = FALSE
    /\ keys \in TensorsOver(MaxProcCells, Bits)
    /\ queries \in TensorsOver(MaxProcCells, Bits)
    /\ k \in Ks
    /\ distance \in Distances
    /\ called = ""
    /\ res = NoSearch
    /\ SliceIdle
    /\ CartIdle

NextProc ==
    \/ ImportFaiss
    \/ BindBackend
    \/ CallGetKnn
    \/ CallGetKnnPytorch
    \/ CallGetKnnFaiss

SpecProc == InitProc /\ [][NextProc]_vars

\* SpecKnn: the searches, in a process that has imported the module where the
\* FAISS GPU library is present (the state the two module-level steps leave)
InitKnn ==
    /\ faiss_env = "gpu"
    /\ LET probed == import_faiss(faiss_env, <<>>)
           bound  == bind_backend(probed.available, probed.stderr, 0)
       IN  /\ FAISS_AVAILABLE = probed.available
           /\ FAISS_RES = bound.FAISS_RES
           /\ res_built = bound.res_built
           /\ stderr = bound.stderr
           /\ get_knn = bound.get_knn
    /\ pc = "ready"
    /\ native_called = FALSE
    /\ keys \in TensorsOver(MaxCells, Bits)
    /\ queries \in TensorsOver(MaxQCells, Bits)
    /\ k \in Ks
    /\ distance \in Distances
    /\ called = ""
    /\ res = NoSearch
    /\ SliceIdle
    /\ CartIdle

\* one search per drawn input: either function by name, or the bound get_knn
SearchPytorch == called = "" /\ CallGetKnnPytorch
SearchFaiss   == called = "" /\ CallGetKnnFaiss
SearchBound   == called = "" /\ CallGetKnn

NextKnn ==
    \/ SearchPytorch
    \/ SearchFaiss
    \/ SearchBound

SpecKnn == InitKnn /\ [][NextKnn]_vars

(***************************************************************************)
(* Claims about get_slices (checked under SpecSlices)                      *)
(***************************************************************************)
\* the integers of the half-open range [r[1], r[2])
RangeSet(r) == r[1]..(r[2] - 1)

\* C1: for every dim >= 1 and head_id >= 0, get_slices(dim, head_id) returns
\* ranges that are pairwise disjoint and whose union is exactly [0, dim); no
\* range ends past dim, also when dim is not a multiple of the block size.
C1_SlicesPartitionDim ==
    Called(slices) =>
        /\ Returned(slices)
        /\ \A p, q \in 1..Len(slices.value) :
              p # q => RangeSet(slices.value[p]) \cap RangeSet(slices.value[q]) = {}
        /\ UNION {RangeSet(slices.value[p]) : p \in 1..Len(slices.value)} = 0..(dim - 1)
        /\ \A p \in 1..Len(slices.value) : slices.value[p][2] <= dim

\* The block at 0-based ordinal position o, for block size offset
Block(o, offset) == <<o * offset, o * offset + offset>>

C3_PairAtRowMajorPosition ==
    (Called(cp_out) /\ cp_a.shape[1] = cp_b.shape[1]) =>
        LET n  == cp_a.shape[1]
            kA == cp_a.shape[2]
            kB == cp_b.shape[2]
        IN  /\ Returned(cp_out)
            /\ cp_out.value.shape = <<n, kA * kB, 2>>
            /\ Len(cp_out.value.data) = n * kA * kB * 2
            /\ \A r \in 0..(n - 1), i \in 0..(kA - 1), j \in 0..(kB - 1) :
                  /\ Item(cp_out.value, <<r, i * kB + j, 0>>) = Item(cp_a, <<r, i>>)
                  /\ Item(cp_out.value, <<r, i * kB + j, 1>>) = Item(cp_b, <<r, j>>)

\* C3's case: widths 2 and 3 give six pairs in a row, from entries that differ
C3_Witness ==
    /\ cp_a.shape = <<1, 2>> /\ cp_b.shape = <<1, 3>>
    /\ cp_a.data[1] # cp_a.data[2] /\ cp_b.data[1] # cp_b.data[3]
    /\ Returned(cp_out)
    /\ cp_out.value.shape = <<1, 6, 2>>

(***************************************************************************)
(* Claims about the searches (checked under SpecKnn)                       *)
(***************************************************************************)
SupportedDistances == {"dot_product", "cosine", "l2"}

\* the arguments pass the three argument checks of the common contract
ValidArguments ==
    /\ Cols(queries) = Cols(keys)
    /\ k > 0
    /\ distance \in SupportedDistances

\* row r of the result holds non-increasing scores and pairwise distinct key indices
RowSortedDistinct(r) ==
    LET width == Cols(res.indices)
    IN  /\ \A p \in 0..(width - 2) : At(res.scores, r, p) >= At(res.scores, r, p + 1)
        /\ \A p, q \in 0..(width - 1) : p # q => At(res.indices, r, p) # At(res.indices, r, q)
        /\ \A p \in 0..(width - 1) : At(res.indices, r, p) \in 0..(Rows(keys) - 1)

\* C4, as stated: every get_knn_pytorch call with valid arguments returns rows of
\* non-increasing scores and pairwise distinct indices in 0..m-1, exactly k of
\* them when m >= k and fewer than k, still as a result, when m < k.
C4_FewerThanKWhenCodebookSmall ==
    (called = "get_knn_pytorch" /\ ValidArguments) =>
        /\ Returned(res)
        /\ Len(res.scores.shape) = 2 /\ res.scores.shape = res.indices.shape
        /\ Rows(res.indices) = Rows(queries)
        /\ \A r \in 0..(Rows(queries) - 1) : RowSortedDistinct(r)
        /\ Rows(keys) >= k => Cols(res.indices) = k
        /\ Rows(keys) < k => Cols(res.indices) < k

\* C4, amended: with m >= k the call returns, for every query row, non-increasing
\* scores and exactly k pairwise distinct indices in 0..m-1; with m < k the call
\* fails (topk raises) and returns no result.
C4_TopKSortedDistinctOrFails ==
    (called = "get_knn_pytorch" /\ ValidArguments) =>
        /\ Rows(keys) >= k =>
              /\ Returned(res)
              /\ res.scores.shape = <<Rows(queries), k>>
              /\ res.indices.shape = <<Rows(queries), k>>
              /\ \A r \in 0..(Rows(queries) - 1) : RowSortedDistinct(r)
        /\ Rows(keys) < k => res.raised = "RuntimeError"

\* C4's case: two query rows, the best 2 of 3 keys, with scores that differ
C4_Witness ==
    /\ called = "get_knn_pytorch" /\ Returned(res)
    /\ Rows(queries) = 2 /\ Rows(keys) = 3 /\ k = 2
    /\ At(res.scores, 1, 0) > At(res.scores, 1, 1)

C6_CosineFailsOnFaissOnly ==
    distance = "cosine" =>
        /\ called = "get_knn_faiss" => (Failed(res) /\ ~res.native)
        /\ (called = "get_knn_pytorch" /\ ValidArguments /\ k <= Rows(keys)) =>
              (Returned(res) /\ res.indices.shape = <<Rows(queries), k>>)

\* C6's case: a cosine search, otherwise valid, refused by get_knn_faiss
C6_Witness ==
    /\ called = "get_knn_faiss" /\ distance = "cosine"
    /\ ValidArguments /\ k <= Rows(keys)
    /\ res.raised = "AssertionError"

\* the squared Euclidean distance between query row r and key row i
SqDist(r, i) ==
    SeqSum([c \in 1..Cols(keys) |->
        (At(queries, r, c - 1) - At(keys, i, c - 1)) * (At(queries, r, c - 1) - At(keys, i, c - 1))])

\* the set of key indices in row r of an indices matrix
IndexSet(ix, r) == {At(ix, r, p) : p \in 0..(Cols(ix) - 1)}

\* C7: under distance = l2 the k indices get_knn_pytorch returns for a query row
\* are a top-k set of the keys ranked by negative squared Euclidean distance to
\* the query (tie order ignored).
C7_L2TopKIsNearestNeighbours ==
    (called = "get_knn_pytorch" /\ distance = "l2" /\ Returned(res)) =>
        \A r \in 0..(Rows(queries) - 1) :
            LET S == IndexSet(res.indices, r)
            IN  /\ Cardinality(S) = k
                /\ S \subseteq 0..(Rows(keys) - 1)
                /\ \A i \in S, j \in (0..(Rows(keys) - 1)) \ S :
                      -SqDist(r, i) >= -SqDist(r, j)

\* C7's case: an l2 search that has to leave out a key farther than one it takes
C7_Witness ==
    /\ called = "get_knn_pytorch" /\ distance = "l2" /\ Returned(res)
    /\ k < Rows(keys)
    /\ \E i \in IndexSet(res.indices, 0), j \in (0..(Rows(keys) - 1)) \ IndexSet(res.indices, 0) :
          SqDist(0, i) < SqDist(0, j)

\* no two keys score the same for any query row, under the call's distance
NoScoreTies ==
    LET scores == IF distance = "l2" THEN l2_scores(keys, queries)
                                     ELSE dot_product_scores(keys, queries)
    IN  \A r \in 0..(Rows(queries) - 1), i, j \in 0..(Rows(keys) - 1) :
            i # j => At(scores, i, r) # At(scores, j, r)

\* C8: on identical inputs (k <= m, distance dot_product or l2, no score ties)
\* get_knn_faiss, with the layout flags it passes, returns for every query row the
\* same set of k key indices as get_knn_pytorch.
C8_BackendsAgreeOnIndexSets ==
    (/\ called = "get_knn_faiss" /\ Returned(res)
     /\ ValidArguments /\ distance \in {"dot_product", "l2"} /\ k <= Rows(keys)
     /\ NoScoreTies) =>
        \A o \in get_knn_pytorch(keys, queries, k, distance) :
            /\ Returned(o)
            /\ \A r \in 0..(Rows(queries) - 1) :
                  IndexSet(res.indices, r) = IndexSet(o.indices, r)

SwitchingLine ==
    "FAISS not available. Switching to standard nearest neighbors search implementation.\n"

\* C10, as stated: when the probe finds the library or its GPU support absent,
\* get_knn is bound to get_knn_pytorch and exactly one line is written to stderr in
\* each of these cases; when it succeeds, get_knn is bound to get_knn_faiss and no
\* line is written.
C10_OneLinePerFallback ==
    pc = "ready" =>
        /\ faiss_env = "gpu" => (get_knn = "get_knn_faiss" /\ Len(stderr) = 0)
        /\ faiss_env # "gpu" => (get_knn = "get_knn_pytorch" /\ Len(stderr) = 1)

\* C10, amended: no error is raised and the binding stays for the process lifetime;
\* a library without GPU support binds get_knn_pytorch and writes one line; a
\* failed import binds get_knn_pytorch and writes two lines ("FAISS library was not
\* found." and then the switching line); a successful probe binds get_knn_faiss and
\* writes nothing.
C10_FallbackBindingAndLines ==
    /\ pc # "ready" => get_knn = "undefined"
    /\ pc = "ready" =>
          /\ faiss_env = "gpu" => (get_knn = "get_knn_faiss" /\ stderr = <<>>)
          /\ faiss_env = "cpu_only" =>
                (get_knn = "get_knn_pytorch" /\ stderr = <<SwitchingLine>>)
          /\ faiss_env = "missing" =>
                (get_knn = "get_knn_pytorch"
                 /\ stderr = <<"FAISS library was not found.\n", SwitchingLine>>)

\* C10's case: the import failed and a search went through the fallback binding
C10_Witness ==
    /\ pc = "ready" /\ faiss_env = "missing"
    /\ get_knn = "get_knn_pytorch" /\ called = "get_knn_pytorch" /\ Returned(res)
    /\ Len(stderr) = 2

=============================================================================
